---- MODULE Spec2Model ----
(***************************************************************************)
(* Model of diploma-ml-api: the document segmentation and the result     *)
(* aggregation (src/utils/text_chunker.py, src/utils/chunk_aggregator.py)  *)
(* and the detection service with its two backends                         *)
(* (src/services/detection_service.py).                                    *)
(*                                                                         *)
(* Strings.  A Python str is modelled as a sequence of tokens.  A token is *)
(* a record [k, n, id]:                                                    *)
(*   k = "w"   a run of n >= 1 one-letter words separated by single        *)
(*             spaces ("w w ... w", 2n-1 characters); id tells the runs of *)
(*             one text apart, so every word of a text is identifiable;    *)
(*   k = ".", "!", "?"   one sentence-terminator character;                *)
(*   k = " ", "nl", "cr" one whitespace character (space, \n, \r).         *)
(* Runs keep the 200/500-word thresholds of the code at their real values  *)
(* while the sequences stay short.  No operation of the code can cut       *)
(* inside a run: a run holds no newline and no terminator.                 *)
(***************************************************************************)
EXTENDS Integers, Sequences, FiniteSets, TLC

VARIABLES
    text,           \* chunker: the argument of split_text_into_chunks
    paragraphs,     \* chunker: the list built at line 43
    idx,            \* chunker: position of the for loop (next paragraph)
    chunks,         \* chunker: the chunks list
    pending,        \* chunker: the pending buffer
    pending_words,  \* chunker: the recorded word count of the buffer
    pc,             \* chunker: "start", "loop", "done"; "idle" when not run
    results,        \* aggregator: the results argument
    in_chunks,      \* aggregator: the chunks argument
    out,            \* aggregator: the returned DetectionResultDTO, or NoResult
    raised,         \* aggregator: the exception raised, or "none"
    apc,            \* aggregator: "call", "returned", "raised"; "idle" when not run
    rubert_model,   \* service: RuBertService._model, "None" or "loaded"
    gigacheck_model, \* service: GigaCheckService._model, "None" or "loaded"
    lpc,            \* service: position of DetectionService.load: "new" before
                    \* the first call, "rubert_load", "gigacheck_load",
                    \* "returned", "raised"; "idle" when not run
    load_started,   \* service: the backend loads the last load call started
    loads,          \* service: number of load calls so far
    req,            \* service: the detect calls in flight, one per request slot
    detects,        \* service: number of detect calls so far
    log             \* service: the warnings and infos logged by the calls

chunkerVars == <<text, paragraphs, idx, chunks, pending, pending_words, pc>>
aggregatorVars == <<results, in_chunks, out, raised, apc>>
serviceVars ==
    <<rubert_model, gigacheck_model, lpc, load_started, loads, req, detects, log>>
vars == <<text, paragraphs, idx, chunks, pending, pending_words, pc,
          results, in_chunks, out, raised, apc,
          rubert_model, gigacheck_model, lpc, load_started, loads, req,
          detects, log>>

---------------------------------------------------------------------------
(* Bounds of the model *)

\* Largest number of pieces (word run + separator) of an input text.
MaxPieces == 3

\* Largest length of the results list and of the chunks list handed to
\* aggregate_chunk_results.
MaxResults == 3

\* Number of request slots: the detect calls that can be in flight together.
NumRequests == 2

\* Largest number of calls of DetectionService.load, and of
\* DetectionService.detect, in a run.
MaxLoads == 2
MaxDetects == 3

(* Program constants *)

_MAX_WORDS == 500
_MIN_WORDS == 200

---------------------------------------------------------------------------
(* Tokens and the str methods the code uses *)

W(n, i) == [k |-> "w", n |-> n, id |-> i]
Ch(c) == [k |-> c, n |-> 0, id |-> 0]

Last(s) == s[Len(s)]

SP == Ch(" ")
NL == Ch("nl")
CR == Ch("cr")
DOT == Ch(".")
QM == Ch("?")

\* str.isspace() of one character; the same class as \s of re.
IsSpace(t) == t.k \in {" ", "nl", "cr"}

\* The character class [.!?] of _SENTENCE_ENDINGS.
IsTerminator(t) == t.k \in {".", "!", "?"}

RECURSIVE Concat(_)
\* The concatenation of a sequence of strings.
Concat(ss) == IF ss = <<>> THEN <<>> ELSE Head(ss) \o Concat(Tail(ss))

RECURSIVE Join(_, _)
\* sep.join(parts)
Join(sep, parts) ==
    IF parts = <<>> THEN <<>>
    ELSE IF Len(parts) = 1 THEN parts[1]
    ELSE parts[1] \o sep \o Join(sep, Tail(parts))

RECURSIVE LStrip(_)
LStrip(s) == IF s # <<>> /\ IsSpace(Head(s)) THEN LStrip(Tail(s)) ELSE s

RECURSIVE RStrip(_)
RStrip(s) ==
    IF s # <<>> /\ IsSpace(s[Len(s)]) THEN RStrip(SubSeq(s, 1, Len(s) - 1)) ELSE s

\* str.strip()
Strip(s) == RStrip(LStrip(s))

RECURSIVE StrLen(_)
\* len(s): the number of characters
StrLen(s) ==
    IF s = <<>> THEN 0
    ELSE (IF Head(s).k = "w" THEN 2 * Head(s).n - 1 ELSE 1) + StrLen(Tail(s))

RECURSIVE SplitWords(_, _, _)
\* str.split(): the maximal whitespace-free blocks of s, in order.  A block
\* holding runs of n1, n2, ... words stands for 1 + (n1-1) + (n2-1) + ... words.
SplitWords(s, cur, acc) ==
    IF s = <<>> THEN (IF cur = <<>> THEN acc ELSE Append(acc, cur))
    ELSE IF IsSpace(Head(s))
         THEN SplitWords(Tail(s), <<>>, IF cur = <<>> THEN acc ELSE Append(acc, cur))
         ELSE SplitWords(Tail(s), Append(cur, Head(s)), acc)

RECURSIVE BlockWords(_)
BlockWords(b) ==
    IF b = <<>> THEN 0
    ELSE (IF Head(b).k = "w" THEN Head(b).n - 1 ELSE 0) + BlockWords(Tail(b))

RECURSIVE SumBlocks(_)
SumBlocks(bs) ==
    IF bs = <<>> THEN 0 ELSE 1 + BlockWords(Head(bs)) + SumBlocks(Tail(bs))

\* len(text.split())
_count_words(s) == SumBlocks(SplitWords(s, <<>>, <<>>))

---------------------------------------------------------------------------
(* The two regular expressions *)

RECURSIVE NlRun(_, _)
\* The number of consecutive \n characters of s from position i.
NlRun(s, i) == IF i <= Len(s) /\ s[i].k = "nl" THEN 1 + NlRun(s, i + 1) ELSE 0

RECURSIVE WsRun(_, _)
\* The number of consecutive whitespace characters of s from position i.
WsRun(s, i) == IF i <= Len(s) /\ IsSpace(s[i]) THEN 1 + WsRun(s, i + 1) ELSE 0

\* Length of the match of \n{2,}|\r\n{2,} at position i, 0 when there is none:
\* the first alternative that matches wins, each quantifier is greedy.
ParagraphBreakAt(s, i) ==
    IF NlRun(s, i) >= 2 THEN NlRun(s, i)
    ELSE IF s[i].k = "cr" /\ NlRun(s, i + 1) >= 2 THEN 1 + NlRun(s, i + 1)
    ELSE 0

\* SentenceEndAt with the lookbehind lost: any whitespace ends a sentence.
SentenceEndAt_NoLookbehind(s, i) == WsRun(s, i)

\* Length of the match of (?<=[.!?])\s+ at position i, 0 when there is none.
SentenceEndAt(s, i) ==
    IF i > 1 /\ IsTerminator(s[i - 1]) THEN WsRun(s, i) ELSE 0

RECURSIVE SplitParagraphBreaks(_, _, _, _)
\* re.split(r'\n{2,}|\r\n{2,}', s): leftmost non-overlapping matches; the
\* pieces between them, empty ones included.
SplitParagraphBreaks(s, i, cur, acc) ==
    IF i > Len(s) THEN Append(acc, cur)
    ELSE LET m == ParagraphBreakAt(s, i) IN
         IF m > 0 THEN SplitParagraphBreaks(s, i + m, <<>>, Append(acc, cur))
         ELSE SplitParagraphBreaks(s, i + 1, Append(cur, s[i]), acc)

RECURSIVE SplitSentenceEndings(_, _, _, _)
\* _SENTENCE_ENDINGS.split(s)
SplitSentenceEndings(s, i, cur, acc) ==
    IF i > Len(s) THEN Append(acc, cur)
    ELSE LET m == SentenceEndAt(s, i) IN
         IF m > 0 THEN SplitSentenceEndings(s, i + m, <<>>, Append(acc, cur))
         ELSE SplitSentenceEndings(s, i + 1, Append(cur, s[i]), acc)

RECURSIVE StripNonEmpty(_)
\* [p.strip() for p in ps if p.strip()]
StripNonEmpty(ps) ==
    IF ps = <<>> THEN <<>>
    ELSE (IF Strip(Head(ps)) # <<>> THEN <<Strip(Head(ps))>> ELSE <<>>)
         \o StripNonEmpty(Tail(ps))

\* Line 43 of split_text_into_chunks.
SplitIntoParagraphs(s) == StripNonEmpty(SplitParagraphBreaks(s, 1, <<>>, <<>>))

---------------------------------------------------------------------------
(* text_chunker.py *)

RECURSIVE PackSentences_DropsSentence(_, _, _, _)
\* PackSentences restarting the parts empty after a flush, so that the
\* sentence that did not fit is lost.
PackSentences_DropsSentence(sentences, cs, current_parts, current_word_count) ==
    IF sentences = <<>>
    THEN (IF current_parts # <<>> THEN Append(cs, Join(<<SP>>, current_parts)) ELSE cs)
    ELSE LET sentence == Head(sentences)
             sentence_words == _count_words(sentence)
         IN IF current_word_count + sentence_words > _MAX_WORDS /\ current_parts # <<>>
            THEN PackSentences_DropsSentence(Tail(sentences),
                               Append(cs, Join(<<SP>>, current_parts)),
                               <<>>, 0)
            ELSE PackSentences_DropsSentence(Tail(sentences), cs,
                               Append(current_parts, sentence),
                               current_word_count + sentence_words)

RECURSIVE PackSentences_IgnoresSentence(_, _, _, _)
\* PackSentences flushing only once the parts themselves exceed the limit:
\* the words of the sentence being added are left out of the test.
PackSentences_IgnoresSentence(sentences, cs, current_parts, current_word_count) ==
    IF sentences = <<>>
    THEN (IF current_parts # <<>> THEN Append(cs, Join(<<SP>>, current_parts)) ELSE cs)
    ELSE LET sentence == Head(sentences)
             sentence_words == _count_words(sentence)
         IN IF current_word_count > _MAX_WORDS /\ current_parts # <<>>
            THEN PackSentences_IgnoresSentence(Tail(sentences),
                               Append(cs, Join(<<SP>>, current_parts)),
                               <<sentence>>, sentence_words)
            ELSE PackSentences_IgnoresSentence(Tail(sentences), cs,
                               Append(current_parts, sentence),
                               current_word_count + sentence_words)

RECURSIVE PackSentences(_, _, _, _)
\* The for loop of _split_paragraph_into_chunks (lines 21-29) over the
\* sentences still to read, and the final flush (lines 31-32).
PackSentences(sentences, cs, current_parts, current_word_count) ==
    IF sentences = <<>>
    THEN (IF current_parts # <<>> THEN Append(cs, Join(<<SP>>, current_parts)) ELSE cs)
    ELSE LET sentence == Head(sentences)
             sentence_words == _count_words(sentence)
         IN IF current_word_count + sentence_words > _MAX_WORDS /\ current_parts # <<>>
            THEN PackSentences(Tail(sentences),
                               Append(cs, Join(<<SP>>, current_parts)),
                               <<sentence>>, sentence_words)
            ELSE PackSentences(Tail(sentences), cs,
                               Append(current_parts, sentence),
                               current_word_count + sentence_words)

\* The sentences of a paragraph (line 16).
Sentences(paragraph) == SplitSentenceEndings(Strip(paragraph), 1, <<>>, <<>>)

_split_paragraph_into_chunks(paragraph) ==
    SelectSeq(PackSentences(Sentences(paragraph), <<>>, <<>>, 0),
              LAMBDA c : Strip(c) # <<>>)

\* chunks.append("\n\n".join(pending)) when pending is not empty
\* (lines 54-55, 71-72).
FlushPending(cs, p) == IF p # <<>> THEN Append(cs, Join(<<NL, NL>>, p)) ELSE cs

\* The test of line 60 with the paragraph's own words forgotten.
WouldOverflow_IgnoresParagraph(pw, para_words, p) == pw > _MAX_WORDS /\ p # <<>>

\* The test of line 60.
WouldOverflow(pw, para_words, p) == pw + para_words > _MAX_WORDS /\ p # <<>>

\* The test of line 67 with > in place of >=.
ReachedMin_Strict(pw) == pw > _MIN_WORDS

\* The test of line 67.
ReachedMin(pw) == pw >= _MIN_WORDS

\* Line 74 without its fallback: return chunks.
ChunksOrText_NoFallback(cs, t) == cs

\* chunks or [text] (line 74)
ChunksOrText(cs, t) == IF cs = <<>> THEN <<t>> ELSE cs

RECURSIVE ChunkLoop(_, _, _, _)
\* The for loop of split_text_into_chunks (lines 49-69) over the paragraphs
\* still to read, and the final flush (lines 71-72), as a function.
ChunkLoop(ps, cs, p, pw) ==
    IF ps = <<>>
    THEN FlushPending(cs, p)
    ELSE LET paragraph == Head(ps)
             para_words == _count_words(paragraph)
             over == WouldOverflow(pw, para_words, p)
             cs1 == IF over THEN FlushPending(cs, p) ELSE cs
             p2 == Append(IF over THEN <<>> ELSE p, paragraph)
             w2 == (IF over THEN 0 ELSE pw) + para_words
         IN IF para_words > _MAX_WORDS
            THEN ChunkLoop(Tail(ps),
                           FlushPending(cs, p) \o _split_paragraph_into_chunks(paragraph),
                           <<>>, IF p # <<>> THEN 0 ELSE pw)
            ELSE IF ReachedMin(w2)
                 THEN ChunkLoop(Tail(ps), Append(cs1, Join(<<NL, NL>>, p2)), <<>>, 0)
                 ELSE ChunkLoop(Tail(ps), cs1, p2, w2)

\* split_text_into_chunks as a function of the text: what the steps
\* SplitParagraphs ... ReturnChunks leave in chunks.
split_text_into_chunks(t) ==
    ChunksOrText(ChunkLoop(SplitIntoParagraphs(t), <<>>, <<>>, 0), t)

\* Lines 43-47: the paragraphs, and the empty accumulators.
SplitParagraphs ==
    /\ pc = "start"
    /\ paragraphs' = SplitIntoParagraphs(text)
    /\ chunks' = <<>>
    /\ pending' = <<>>
    /\ pending_words' = 0
    /\ idx' = 1
    /\ pc' = "loop"
    /\ UNCHANGED <<text, results, in_chunks, out, raised, apc, serviceVars>>

\* One iteration of the loop on an oversized paragraph (lines 50-58).
OversizedParagraph ==
    /\ pc = "loop"
    /\ idx <= Len(paragraphs)
    /\ LET paragraph == paragraphs[idx]
           para_words == _count_words(paragraph)
       IN /\ para_words > _MAX_WORDS
          /\ chunks' = FlushPending(chunks, pending)
                         \o _split_paragraph_into_chunks(paragraph)
          /\ pending' = <<>>
          /\ pending_words' = IF pending # <<>> THEN 0 ELSE pending_words
    /\ idx' = idx + 1
    /\ UNCHANGED <<text, paragraphs, pc, results, in_chunks, out, raised, apc, serviceVars>>

\* One iteration of the loop on any other paragraph (lines 50-52, 60-69).
BufferParagraph ==
    /\ pc = "loop"
    /\ idx <= Len(paragraphs)
    /\ LET paragraph == paragraphs[idx]
           para_words == _count_words(paragraph)
           over == WouldOverflow(pending_words, para_words, pending)
           cs1 == IF over THEN FlushPending(chunks, pending) ELSE chunks
           p2 == Append(IF over THEN <<>> ELSE pending, paragraph)
           w2 == (IF over THEN 0 ELSE pending_words) + para_words
       IN /\ ~(para_words > _MAX_WORDS)
          /\ IF ReachedMin(w2)
             THEN /\ chunks' = Append(cs1, Join(<<NL, NL>>, p2))
                  /\ pending' = <<>>
                  /\ pending_words' = 0
             ELSE /\ chunks' = cs1
                  /\ pending' = p2
                  /\ pending_words' = w2
    /\ idx' = idx + 1
    /\ UNCHANGED <<text, paragraphs, pc, results, in_chunks, out, raised, apc, serviceVars>>

\* After the loop: the last flush and the return (lines 71-74).  chunks then
\* holds the value split_text_into_chunks returns.
ReturnChunks ==
    /\ pc = "loop"
    /\ idx > Len(paragraphs)
    /\ chunks' = ChunksOrText(FlushPending(chunks, pending), text)
    /\ pc' = "done"
    /\ UNCHANGED <<text, paragraphs, idx, pending, pending_words,
                   results, in_chunks, out, raised, apc, serviceVars>>

---------------------------------------------------------------------------
(* The inputs of the chunker *)

\* Word counts of the runs: with at most MaxPieces of them they give
\* paragraphs and sentences below 200, at 200, between, at 500 and above.
RunSizes == {100, 200, 450}

\* What follows a run: nothing, a space, a sentence end on the line, a
\* sentence end at a line end, a blank line, a blank line with CRLF line
\* endings.
Separators ==
    {<<>>, <<SP>>, <<DOT, SP>>, <<QM, NL>>, <<NL, NL>>, <<CR, NL, CR, NL>>}

\* The shapes of a piece: the word count of its run (0: no run) and its
\* separator.
PieceShapes == ({0} \cup RunSizes) \X Separators

\* The piece of shape sh at position i of a text.
Piece(i, sh) == (IF sh[1] = 0 THEN <<>> ELSE <<W(sh[1], i)>>) \o sh[2]

\* The text made of the pieces of shapes f[1], ..., f[k].
TextOf(f) == Concat([i \in DOMAIN f |-> Piece(i, f[i])])

ChunkerIdle ==
    /\ text = <<>>
    /\ paragraphs = <<>>
    /\ idx = 1
    /\ chunks = <<>>
    /\ pending = <<>>
    /\ pending_words = 0
    /\ pc = "idle"

AggregatorIdle ==
    /\ results = <<>>
    /\ in_chunks = <<>>
    /\ out = [label |-> "none", ai_probability |-> 0, certainty |-> 0,
              ai_spans |-> <<>>, model_used |-> "none"]
    /\ raised = "none"
    /\ apc = "idle"

ServiceIdle ==
    /\ rubert_model = "None"
    /\ gigacheck_model = "None"
    /\ lpc = "idle"
    /\ load_started = <<>>
    /\ loads = 0
    /\ req = <<>>
    /\ detects = 0
    /\ log = {}

InitChunker ==
    /\ \E k \in 0..MaxPieces : \E f \in [1..k -> PieceShapes] : text = TextOf(f)
    /\ paragraphs = <<>>
    /\ idx = 1
    /\ chunks = <<>>
    /\ pending = <<>>
    /\ pending_words = 0
    /\ pc = "start"
    /\ AggregatorIdle
    /\ ServiceIdle

NextChunker ==
    \/ SplitParagraphs
    \/ OversizedParagraph
    \/ BufferParagraph
    \/ ReturnChunks

SpecChunker == InitChunker /\ [][NextChunker]_vars

---------------------------------------------------------------------------
(* chunk_aggregator.py *)

(* Floats.  ai_probability and certainty are modelled as integers counting   *)
(* units of 10^-5, one decimal place more than round(x, 4) keeps, and the    *)
(* weighted sums as exact fractions.  round(x, 4) gives the nearest multiple *)
(* of 10 units; at an exact tie the binary value of the float decides, so    *)
(* both neighbours are outcomes.                                             *)

\* Units of one step of the 4th decimal place.
RoundUnit == 10

\* 100.0, the top of the probability scale.
Full == 10000000

AiSpanDTO(start, end, score) == [start |-> start, end |-> end, score |-> score]

DetectionResultDTO(label, ai_probability, certainty, ai_spans, model_used) ==
    [label |-> label, ai_probability |-> ai_probability, certainty |-> certainty,
     ai_spans |-> ai_spans, model_used |-> model_used]

\* The value of out while nothing has been returned.
NoResult == DetectionResultDTO("none", 0, 0, <<>>, "none")

\* str.upper() on the labels that occur.
Upper(l) ==
    CASE l \in {"ai", "Ai", "AI"} -> "AI"
      [] l \in {"human", "Human", "HUMAN"} -> "HUMAN"
      [] l \in {"mixed", "Mixed", "MIXED"} -> "MIXED"
      [] OTHER -> l

Min(a, b) == IF a <= b THEN a ELSE b

RECURSIVE Sum(_)
\* sum(xs)
Sum(xs) == IF xs = <<>> THEN 0 ELSE Head(xs) + Sum(Tail(xs))

\* word_counts = [len(c.split()) for c in chunks] (line 19)
word_counts(cs) == [i \in 1..Len(cs) |-> _count_words(cs[i])]

\* total_words taken for the number of chunks.
total_words_CountsChunks(wcs) == Len(wcs)

\* total_words = sum(word_counts) (line 20)
total_words(wcs) == Sum(wcs)

\* The numerator of sum(v * w for v, w in zip(values, weights)) over the
\* common denominator total_words, where weights[i] = word_counts[i] /
\* total_words (lines 21, 23-24): zip stops at the shorter list.
WeightedNumerator(values, wcs) ==
    Sum([i \in 1..Min(Len(values), Len(wcs)) |-> values[i] * wcs[i]])

\* round(num / den, 4) for num >= 0, den > 0: the multiples m of RoundUnit
\* with |num/den - m| <= RoundUnit/2.
Round4(num, den) ==
    LET lo == ((num \div den) \div RoundUnit) * RoundUnit
    IN  {m \in {lo, lo + RoundUnit} :
            /\ 2 * (num - m * den) <= RoundUnit * den
            /\ 2 * (m * den - num) <= RoundUnit * den}

\* The vote with a tie won by "AI".
MajorityLabel_TieIsAI(rs) ==
    LET ai_votes == Cardinality({i \in 1..Len(rs) : Upper(rs[i].label) = "AI"})
    IN  IF 2 * ai_votes >= Len(rs) THEN "AI" ELSE "HUMAN"

\* Lines 27-28: ai_votes > len(results) / 2, a true division.
MajorityLabel(rs) ==
    LET ai_votes == Cardinality({i \in 1..Len(rs) : Upper(rs[i].label) = "AI"})
    IN  IF 2 * ai_votes > Len(rs) THEN "AI" ELSE "HUMAN"

\* The offset advanced by the chunk's length alone.
AdvanceOffset_NoSeparator(offset, chunk) == offset + StrLen(chunk)

\* offset += len(chunk) + 2 (line 40)
AdvanceOffset(offset, chunk) == offset + StrLen(chunk) + 2

\* Lines 34-39: the spans of one result moved by offset.
ShiftSpans(spans, offset) ==
    [k \in 1..Len(spans) |->
        AiSpanDTO(spans[k].start + offset, spans[k].end + offset, spans[k].score)]

RECURSIVE RemapSpans(_, _, _, _)
\* The loop of lines 33-40 over zip(chunks, results), from the pairs still
\* to read.
RemapSpans(cs, rs, offset, ai_spans) ==
    IF cs = <<>> \/ rs = <<>> THEN ai_spans
    ELSE RemapSpans(Tail(cs), Tail(rs), AdvanceOffset(offset, Head(cs)),
                    ai_spans \o ShiftSpans(Head(rs).ai_spans, offset))

\* The division of line 21 is reached with a zero divisor: the list
\* comprehension divides once per chunk.
DividesByZero(cs) == cs # <<>> /\ total_words(word_counts(cs)) = 0

\* The results lines 19-50 can return, for two or more results and no
\* division by zero (an empty chunks list gives empty sums, which are 0).
Aggregated(rs, cs) ==
    LET wcs == word_counts(cs)
        den == IF cs = <<>> THEN 1 ELSE total_words(wcs)
        ai_num == WeightedNumerator([i \in 1..Len(rs) |-> rs[i].ai_probability], wcs)
        ce_num == WeightedNumerator([i \in 1..Len(rs) |-> rs[i].certainty], wcs)
    IN  {DetectionResultDTO(MajorityLabel(rs), a, c,
                            RemapSpans(cs, rs, 0, <<>>), rs[1].model_used) :
            a \in Round4(ai_num, den), c \in Round4(ce_num, den)}

\* An empty results list answered with a default result.
RaiseEmpty_ReturnsDefault ==
    /\ apc = "call"
    /\ results = <<>>
    /\ out' = DetectionResultDTO("HUMAN", 0, 0, <<>>, "rubert")
    /\ apc' = "returned"
    /\ UNCHANGED <<results, in_chunks, raised, chunkerVars, serviceVars>>

\* Lines 13-14: raise ValueError("No chunk results to aggregate").
RaiseEmpty ==
    /\ apc = "call"
    /\ results = <<>>
    /\ raised' = "ValueError"
    /\ apc' = "raised"
    /\ UNCHANGED <<results, in_chunks, out, chunkerVars, serviceVars>>

\* A single result sent through the weighting and rounding of lines 19-50.
ReturnSingle_Aggregated ==
    /\ apc = "call"
    /\ Len(results) = 1
    /\ IF DividesByZero(in_chunks)
       THEN raised' = "ZeroDivisionError" /\ apc' = "raised" /\ out' = out
       ELSE out' \in Aggregated(results, in_chunks) /\ apc' = "returned"
              /\ raised' = raised
    /\ UNCHANGED <<results, in_chunks, chunkerVars, serviceVars>>

\* Lines 16-17: return results[0].
ReturnSingle ==
    /\ apc = "call"
    /\ Len(results) = 1
    /\ out' = results[1]
    /\ apc' = "returned"
    /\ UNCHANGED <<results, in_chunks, raised, chunkerVars, serviceVars>>

\* Line 21 with total_words = 0: ZeroDivisionError.
RaiseZeroDivision ==
    /\ apc = "call"
    /\ Len(results) >= 2
    /\ DividesByZero(in_chunks)
    /\ raised' = "ZeroDivisionError"
    /\ apc' = "raised"
    /\ UNCHANGED <<results, in_chunks, out, chunkerVars, serviceVars>>

\* Lines 19-50: the aggregated result.
ReturnAggregate ==
    /\ apc = "call"
    /\ Len(results) >= 2
    /\ ~DividesByZero(in_chunks)
    /\ out' \in Aggregated(results, in_chunks)
    /\ apc' = "returned"
    /\ UNCHANGED <<results, in_chunks, raised, chunkerVars, serviceVars>>

---------------------------------------------------------------------------
(* The inputs of the aggregator *)

\* Results shaped like RuBertService.detect's: no spans, the certainty that
\* of the label.
RuBertResults ==
    {DetectionResultDTO(l, p, IF l = "AI" THEN p ELSE Full - p, <<>>, "rubert") :
        l \in {"AI", "HUMAN"}, p \in {4, 6000015}}

\* Results shaped like GigaCheckService.detect's: spans local to the chunk.
GigaCheckResults ==
    {DetectionResultDTO("AI", 9000000, 8000000, <<AiSpanDTO(0, 2, 7)>>, "gigacheck"),
     DetectionResultDTO("HUMAN", 3000000, 7000000,
                        <<AiSpanDTO(1, 3, 9), AiSpanDTO(0, 1, 7)>>, "gigacheck")}

ResultPool == RuBertResults \cup GigaCheckResults

\* Chunks of 0, 1 and 2 words and of 1, 1 and 4 characters: " ", "w", "w w.".
ChunkPool == {<<SP>>, <<W(1, 0)>>, <<W(2, 0), DOT>>}

InitAggregator ==
    /\ \E n \in 0..MaxResults : results \in [1..n -> ResultPool]
    /\ \E m \in 0..MaxResults : in_chunks \in [1..m -> ChunkPool]
    /\ out = NoResult
    /\ raised = "none"
    /\ apc = "call"
    /\ ChunkerIdle
    /\ ServiceIdle

NextAggregator ==
    \/ RaiseEmpty
    \/ ReturnSingle
    \/ RaiseZeroDivision
    \/ ReturnAggregate

SpecAggregator == InitAggregator /\ [][NextAggregator]_vars

---------------------------------------------------------------------------
(* detection_service.py *)

(* The event loop and the worker threads.  A coroutine runs on the event    *)
(* loop thread from one suspension to the next; what it hands to            *)
(* loop.run_in_executor runs on a worker thread while the coroutine is      *)
(* suspended.  A model call made in the coroutine itself is a step of the   *)
(* event loop thread: it is modelled by a start and an end, and no other    *)
(* coroutine takes a step between the two.  An exception is an instance of  *)
(* Exception.                                                               *)

Requests == 1..NumRequests

\* One call of a backend's model or of its loader: the backend, the text
\* the model read ("" for a load), the thread the call ran on and how it
\* ended ("pending" while it runs).
Call(backend, t, thread, outcome) ==
    [backend |-> backend, text |-> t, thread |-> thread, outcome |-> outcome]

\* A request slot with no detect call in it.  after_fallback tells, for a
\* call, whether an earlier call had already been answered by RuBERT after
\* GigaCheck raised when it was made.
IdleRequest ==
    [pc |-> "idle", text |-> <<>>, calls |-> <<>>, result |-> NoResult,
     error |-> "none", after_fallback |-> FALSE]

\* A record of the log: who wrote it (0: load, r: the detect call of slot r)
\* and the event.
Logged(who, event) == [who |-> who, event |-> event]

\* The event loop thread is not inside a model call.
LoopFree == \A r \in Requests : req[r].pc # "rubert"

\* dto.text as the model call of a request reads it, from the text of
\* whichever other request is in flight.
ModelInput_Shared(rq, r) ==
    LET others == {q \in Requests \ {r} : rq[q].pc # "idle"}
    IN  IF others = {} THEN rq[r].text ELSE rq[CHOOSE q \in others : TRUE].text

\* dto.text as the model call of a request reads it (lines 59, 113): dto is
\* the argument of the request's own coroutine.
ModelInput(rq, r) == rq[r].text

\* The forward pass of the loaded RuBERT model on a text (line 67), as the
\* probability of class 1 ("AI") in units of 10^-5 percent.  The weights are
\* outside the code; any function of the text stands for them.
RuBertForward(t) == IF _count_words(t) >= _MIN_WORDS THEN 6000015 ELSE 4

\* Lines 69-81: the result RuBertService.detect builds from the logits.
RuBertOutput(t) ==
    LET ai_probability == RuBertForward(t)
        predicted_id == IF ai_probability > Full - ai_probability THEN 1 ELSE 0
    IN  DetectionResultDTO(IF predicted_id = 1 THEN "AI" ELSE "HUMAN",
                           ai_probability,
                           IF predicted_id = 1 THEN ai_probability
                                               ELSE Full - ai_probability,
                           <<>>, "rubert")

\* The output of the loaded GigaCheck model on a text (lines 111-114): the
\* intervals (start, end, score in tenths), the class probabilities (of
\* Human, AI, Mixed, in units of 10^-5 percent) or "None", and the predicted
\* class.  Any function of the text stands for the weights.
GigaCheckForward(t) ==
    IF _count_words(t) >= _MIN_WORDS
    THEN [ai_intervals |-> <<AiSpanDTO(0, StrLen(t), 9)>>,
          classification_head_probs |-> <<2000000, 5000000, 3000000>>,
          pred_label_ids |-> 1]
    ELSE [ai_intervals |-> <<>>,
          classification_head_probs |-> "None",
          pred_label_ids |-> 0]

\* Lines 116-151: the result GigaCheckService.detect builds from the output.
GigaCheckOutput(t) ==
    LET output == GigaCheckForward(t)
        ai_spans == output.ai_intervals
        probs == output.classification_head_probs
        pred_id == output.pred_label_ids
        scores == {ai_spans[i].score : i \in 1..Len(ai_spans)}
        max_score == IF scores = {} THEN 0
                     ELSE CHOOSE x \in scores : \A y \in scores : x >= y
    IN  IF probs # "None"
        THEN DetectionResultDTO(IF pred_id \in {1, 2} THEN "AI" ELSE "HUMAN",
                                probs[2] + probs[3],
                                probs[pred_id + 1],
                                ai_spans, "gigacheck")
        ELSE DetectionResultDTO(IF ai_spans # <<>> THEN "AI" ELSE "HUMAN",
                                max_score * 1000000,
                                max_score * 1000000,
                                ai_spans, "gigacheck")

\* The request slots after a step of the detect call of slot r that leaves
\* it as rec.
SetRequest(r, rec) == req' = [req EXCEPT ![r] = rec]

\* load handing the GigaCheck loader to the executor first.
Load_GigaCheckFirst ==
    /\ lpc \in {"new", "returned"}
    /\ loads < MaxLoads
    /\ \A r \in Requests : req[r].pc = "idle"
    /\ lpc' = "gigacheck_load"
    /\ load_started' = <<Call("gigacheck", <<>>, "executor", "pending")>>
    /\ loads' = loads + 1
    /\ log' = {e \in log : e.who # 0}
    /\ UNCHANGED <<rubert_model, gigacheck_model, req, detects,
                   chunkerVars, aggregatorVars>>

\* DetectionService.load is called (line 164, up to the await inside
\* RuBertService.load): the RuBERT loader is handed to the executor.
Load ==
    /\ lpc \in {"new", "returned"}
    /\ loads < MaxLoads
    /\ \A r \in Requests : req[r].pc = "idle"
    /\ lpc' = "rubert_load"
    /\ load_started' = <<Call("rubert", <<>>, "executor", "pending")>>
    /\ loads' = loads + 1
    /\ log' = {e \in log : e.who # 0}
    /\ UNCHANGED <<rubert_model, gigacheck_model, req, detects,
                   chunkerVars, aggregatorVars>>

\* RuBertService._load_model_sync returns (lines 38-49); load goes on to the
\* GigaCheck loader (lines 165-169).
RuBertLoaded ==
    /\ lpc = "rubert_load"
    /\ rubert_model' = "loaded"
    /\ lpc' = "gigacheck_load"
    /\ load_started' = <<Call("rubert", <<>>, "executor", "ok"),
                         Call("gigacheck", <<>>, "executor", "pending")>>
    /\ log' = log \cup {Logged(0, "rubert_loaded_successfully")}
    /\ UNCHANGED <<gigacheck_model, loads, req, detects,
                   chunkerVars, aggregatorVars>>

\* RuBertService._load_model_sync raises before line 48: line 164 is outside
\* the try, load raises (and the lifespan of main.py with it).
RuBertLoadRaises ==
    /\ lpc = "rubert_load"
    /\ lpc' = "raised"
    /\ load_started' = <<Call("rubert", <<>>, "executor", "raised")>>
    /\ UNCHANGED <<rubert_model, gigacheck_model, loads, req, detects, log,
                   chunkerVars, aggregatorVars>>

\* GigaCheckService._load_model_sync returns (lines 94-101); load returns
\* (line 170).
GigaCheckLoaded ==
    /\ lpc = "gigacheck_load"
    /\ gigacheck_model' = "loaded"
    /\ lpc' = "returned"
    /\ load_started' =
          [load_started EXCEPT ![Len(load_started)].outcome = "ok"]
    /\ log' = log \cup {Logged(0, "gigacheck_loaded_successfully")}
    /\ UNCHANGED <<rubert_model, loads, req, detects,
                   chunkerVars, aggregatorVars>>

\* Lines 171-177 without line 177: the model of an earlier load stays.
GigaCheckLoadRaises_KeepsModel ==
    /\ lpc = "gigacheck_load"
    /\ lpc' = "returned"
    /\ load_started' =
          [load_started EXCEPT ![Len(load_started)].outcome = "raised"]
    /\ log' = log \cup {Logged(0, "gigacheck_load_failed_using_rubert_only")}
    /\ UNCHANGED <<rubert_model, gigacheck_model, loads, req, detects,
                   chunkerVars, aggregatorVars>>

\* GigaCheckService._load_model_sync raises before line 101: the handler of
\* lines 171-177 logs, marks GigaCheck unavailable, and load returns.
GigaCheckLoadRaises ==
    /\ lpc = "gigacheck_load"
    /\ gigacheck_model' = "None"
    /\ lpc' = "returned"
    /\ load_started' =
          [load_started EXCEPT ![Len(load_started)].outcome = "raised"]
    /\ log' = log \cup {Logged(0, "gigacheck_load_failed_using_rubert_only")}
    /\ UNCHANGED <<rubert_model, loads, req, detects,
                   chunkerVars, aggregatorVars>>

\* The texts of the requests: one of a single chunk, one of two chunks.
ServiceTexts == {<<W(100, 1)>>, <<W(200, 1), NL, NL, W(200, 2)>>}

\* The detect call of slot q has returned the result of RuBERT after
\* GigaCheck raised (lines 184-190).
FallbackAnswered(q) ==
    /\ req[q].pc = "done"
    /\ Len(req[q].calls) = 2

\* Lines 184-188 marking GigaCheck unusable after its failure.
GigaCheckDetectRaises_MarksUnusable(r) ==
    /\ req[r].pc = "gigacheck"
    /\ Last(req[r].calls).outcome = "raised"
    /\ LoopFree
    /\ gigacheck_model' = "None"
    /\ log' = log \cup
          {Logged(r, "gigacheck_detection_failed_falling_back_to_rubert")}
    /\ SetRequest(r,
          [req[r] EXCEPT
              !.pc = "rubert",
              !.calls = Append(@, Call("rubert", req[r].text, "loop", "pending"))])
    /\ UNCHANGED <<rubert_model, lpc, load_started, loads,
                   detects, chunkerVars, aggregatorVars>>

\* DetectionService.detect is called with text t in slot r (lines 181-183,
\* 190), up to the first model call: in the executor for GigaCheck (lines
\* 110-114), in the coroutine itself for RuBERT (lines 58-67).
Detect(r, t) ==
    /\ lpc = "returned"
    /\ req[r].pc = "idle"
    /\ detects < MaxDetects
    /\ LoopFree
    /\ detects' = detects + 1
    /\ log' = {e \in log : e.who # r}
    /\ SetRequest(r,
          IF gigacheck_model # "None"
          THEN [IdleRequest EXCEPT
                   !.pc = "gigacheck", !.text = t,
                   !.calls = <<Call("gigacheck", t, "executor", "pending")>>,
                   !.after_fallback = \E q \in Requests : FallbackAnswered(q)]
          ELSE [IdleRequest EXCEPT
                   !.pc = "rubert", !.text = t,
                   !.calls = <<Call("rubert", t, "loop", "pending")>>,
                   !.after_fallback = \E q \in Requests : FallbackAnswered(q)])
    /\ UNCHANGED <<rubert_model, gigacheck_model, lpc, load_started, loads,
                   chunkerVars, aggregatorVars>>

\* The lambda of line 113 runs on a worker thread and returns or raises.
GigaCheckModelCall(r) ==
    /\ req[r].pc = "gigacheck"
    /\ Last(req[r].calls).outcome = "pending"
    /\ \E outcome \in {"ok", "raised"} :
          SetRequest(r,
             [req[r] EXCEPT !.calls[Len(req[r].calls)] =
                 Call("gigacheck", ModelInput(req, r), "executor", outcome)])
    /\ UNCHANGED <<rubert_model, gigacheck_model, lpc, load_started, loads,
                   detects, log, chunkerVars, aggregatorVars>>

\* The await of line 111 resumes with the output: GigaCheckService.detect
\* returns its result and so does DetectionService.detect (line 183).
GigaCheckDetectReturns(r) ==
    /\ req[r].pc = "gigacheck"
    /\ Last(req[r].calls).outcome = "ok"
    /\ LoopFree
    /\ SetRequest(r,
          [req[r] EXCEPT !.pc = "done",
                         !.result = GigaCheckOutput(Last(req[r].calls).text)])
    /\ UNCHANGED <<rubert_model, gigacheck_model, lpc, load_started, loads,
                   detects, log, chunkerVars, aggregatorVars>>

\* Lines 184-188 raising the exception again instead of falling through.
GigaCheckDetectRaises_Propagates(r) ==
    /\ req[r].pc = "gigacheck"
    /\ Last(req[r].calls).outcome = "raised"
    /\ LoopFree
    /\ log' = log \cup
          {Logged(r, "gigacheck_detection_failed_falling_back_to_rubert")}
    /\ SetRequest(r, [req[r] EXCEPT !.pc = "failed", !.error = "Exception"])
    /\ UNCHANGED <<rubert_model, gigacheck_model, lpc, load_started, loads,
                   detects, chunkerVars, aggregatorVars>>

\* Lines 184-188 followed by one more try of GigaCheck before RuBERT.
GigaCheckDetectRaises_Retries(r) ==
    /\ req[r].pc = "gigacheck"
    /\ Last(req[r].calls).outcome = "raised"
    /\ LoopFree
    /\ log' = log \cup
          {Logged(r, "gigacheck_detection_failed_falling_back_to_rubert")}
    /\ SetRequest(r,
          IF Len(req[r].calls) = 1
          THEN [req[r] EXCEPT
                   !.calls = Append(@, Call("gigacheck", req[r].text,
                                            "executor", "pending"))]
          ELSE [req[r] EXCEPT
                   !.pc = "rubert",
                   !.calls = Append(@, Call("rubert", req[r].text,
                                            "loop", "pending"))])
    /\ UNCHANGED <<rubert_model, gigacheck_model, lpc, load_started, loads,
                   detects, chunkerVars, aggregatorVars>>

\* The await of line 111 resumes with the exception: the handler of lines
\* 184-188 logs it, and line 190 starts RuBertService.detect, whose model
\* call (lines 58-67) runs in the coroutine.
GigaCheckDetectRaises(r) ==
    /\ req[r].pc = "gigacheck"
    /\ Last(req[r].calls).outcome = "raised"
    /\ LoopFree
    /\ log' = log \cup
          {Logged(r, "gigacheck_detection_failed_falling_back_to_rubert")}
    /\ SetRequest(r,
          [req[r] EXCEPT
              !.pc = "rubert",
              !.calls = Append(@, Call("rubert", req[r].text, "loop", "pending"))])
    /\ UNCHANGED <<rubert_model, gigacheck_model, lpc, load_started, loads,
                   detects, chunkerVars, aggregatorVars>>

\* The model call of RuBertService.detect ends and the result is returned
\* (lines 69-81, 190).
RuBertDetectReturns(r) ==
    /\ req[r].pc = "rubert"
    /\ SetRequest(r,
          [req[r] EXCEPT
              !.pc = "done",
              !.calls[Len(req[r].calls)] =
                  Call("rubert", ModelInput(req, r), "loop", "ok"),
              !.result = RuBertOutput(ModelInput(req, r))])
    /\ UNCHANGED <<rubert_model, gigacheck_model, lpc, load_started, loads,
                   detects, log, chunkerVars, aggregatorVars>>

\* RuBertService.detect raises: line 190 is outside the try, so
\* DetectionService.detect raises.
RuBertDetectRaises(r) ==
    /\ req[r].pc = "rubert"
    /\ SetRequest(r,
          [req[r] EXCEPT
              !.pc = "failed",
              !.calls[Len(req[r].calls)] =
                  Call("rubert", ModelInput(req, r), "loop", "raised"),
              !.error = "Exception"])
    /\ UNCHANGED <<rubert_model, gigacheck_model, lpc, load_started, loads,
                   detects, log, chunkerVars, aggregatorVars>>

\* The caller has the result or the exception of the detect call of slot r:
\* the slot is free for another call.
Respond(r) ==
    /\ req[r].pc \in {"done", "failed"}
    /\ LoopFree
    /\ SetRequest(r, IdleRequest)
    /\ UNCHANGED <<rubert_model, gigacheck_model, lpc, load_started, loads,
                   detects, log, chunkerVars, aggregatorVars>>

InitService ==
    /\ rubert_model = "None"
    /\ gigacheck_model = "None"
    /\ lpc = "new"
    /\ load_started = <<>>
    /\ loads = 0
    /\ req = [r \in Requests |-> IdleRequest]
    /\ detects = 0
    /\ log = {}
    /\ ChunkerIdle
    /\ AggregatorIdle

NextService ==
    \/ Load
    \/ RuBertLoaded
    \/ RuBertLoadRaises
    \/ GigaCheckLoaded
    \/ GigaCheckLoadRaises
    \/ \E r \in Requests : \E t \in ServiceTexts : Detect(r, t)
    \/ \E r \in Requests : GigaCheckModelCall(r)
    \/ \E r \in Requests : GigaCheckDetectReturns(r)
    \/ \E r \in Requests : GigaCheckDetectRaises(r)
    \/ \E r \in Requests : RuBertDetectReturns(r)
    \/ \E r \in Requests : RuBertDetectRaises(r)
    \/ \E r \in Requests : Respond(r)

SpecService == InitService /\ [][NextService]_vars

---------------------------------------------------------------------------
(* The whole model *)

Init == InitChunker \/ InitAggregator \/ InitService

Next == NextChunker \/ NextAggregator \/ NextService

Spec == Init /\ [][Next]_vars

---------------------------------------------------------------------------
(* Properties of the chunker *)

\* The whitespace-delimited words of a string.
Words(s) == SplitWords(s, <<>>, <<>>)

\* The words read from a list of chunks, in order.
WordsOfChunks(cs) == Concat([i \in 1..Len(cs) |-> Words(cs[i])])

\* Paragraph i takes the sentence-splitting path.
Oversized(i) == _count_words(paragraphs[i]) > _MAX_WORDS

\* C1: split_text_into_chunks returns at least one chunk for every text, and
\* exactly [text] when no paragraph survives trimming.
C1_NonEmptyResult ==
    pc = "done" =>
        /\ Len(chunks) >= 1
        /\ (paragraphs = <<>> => chunks = <<text>>)

\* A whitespace-only text was split: no paragraph survived.
C1_Witness ==
    /\ pc = "done"
    /\ text # <<>>
    /\ paragraphs = <<>>
    /\ chunks = <<text>>

\* C2: the words of the chunks, read in order, are the words of the text:
\* none dropped, duplicated or reordered, on both paths.
C2_WordsPreserved ==
    pc = "done" => WordsOfChunks(chunks) = Words(text)

\* A text was split of which one paragraph was buffered and another was
\* split at sentence level into several chunks.
C2_Witness ==
    /\ pc = "done"
    /\ \E i, j \in 1..Len(paragraphs) :
          /\ Oversized(i)
          /\ Len(_split_paragraph_into_chunks(paragraphs[i])) >= 2
          /\ ~Oversized(j)

\* Every paragraph of the text has at most 500 words.
AllParagraphsFit == \A i \in 1..Len(paragraphs) : ~Oversized(i)

AddedSubChunks ==
    SubSeq(chunks', Len(chunks) + (IF pending # <<>> THEN 2 ELSE 1), Len(chunks'))

\* C4: when an oversized paragraph is split at sentence level, every
\* sub-chunk but the last ends with '.', '!' or '?', and the sentences of the
\* sub-chunks, in order, are exactly the sentences of the paragraph.
C4_SentenceSafe ==
    [][(pc = "loop" /\ idx <= Len(paragraphs) /\ Oversized(idx)) =>
          LET subs == AddedSubChunks IN
          /\ \A j \in 1..(Len(subs) - 1) : IsTerminator(Last(subs[j]))
          /\ Concat([j \in 1..Len(subs) |-> Sentences(subs[j])])
               = Sentences(paragraphs[idx])]_vars

\* An oversized paragraph of several sentences was split into several
\* sub-chunks, which are in the result.
C4_Witness ==
    /\ pc = "done"
    /\ \E i \in 1..Len(paragraphs) :
          /\ Oversized(i)
          /\ Len(Sentences(paragraphs[i])) >= 3
          /\ Len(_split_paragraph_into_chunks(paragraphs[i])) >= 2
          /\ \E k \in 0..Len(chunks) :
                SubSeq(chunks, k + 1, k + Len(_split_paragraph_into_chunks(paragraphs[i])))
                  = _split_paragraph_into_chunks(paragraphs[i])

---------------------------------------------------------------------------
(* Properties of the aggregator *)

\* The call is within the contract of aggregate_chunk_results: one chunk per
\* result.
SameLength == Len(in_chunks) = Len(results)

\* The ai_probability values of the results.
AiProbabilities == {results[i].ai_probability : i \in 1..Len(results)}

MinOf(S) == CHOOSE x \in S : \A y \in S : x <= y
MaxOf(S) == CHOOSE x \in S : \A y \in S : x >= y

\* x cut, and x raised, to 4 decimal places.
Floor4(x) == (x \div RoundUnit) * RoundUnit
Ceil4(x) == ((x + RoundUnit - 1) \div RoundUnit) * RoundUnit

\* The words of all the chunks handed in.
TotalWordCount == Sum([i \in 1..Len(in_chunks) |-> _count_words(in_chunks[i])])

\* The sum of len(chunk_j) + 2 over the chunks before chunk i.
OffsetOfChunk(i) == Sum([j \in 1..(i - 1) |-> StrLen(in_chunks[j]) + 2])

\* C5: with an empty results list aggregate_chunk_results raises the
\* empty-input error and returns no result, whatever chunks is.
C5_EmptyRaises ==
    (apc # "call" /\ results = <<>>) =>
        /\ apc = "raised"
        /\ raised = "ValueError"
        /\ out = NoResult

\* The call with no results and some chunks has raised.
C5_Witness ==
    /\ apc = "raised"
    /\ results = <<>>
    /\ Len(in_chunks) >= 2

\* C6: aggregate_chunk_results([r], [c]) returns r: label, ai_probability
\* and certainty (unrounded), spans and model_used as they were.
C6_SinglePassthrough ==
    (apc # "call" /\ Len(results) = 1 /\ Len(in_chunks) = 1) =>
        /\ apc = "returned"
        /\ raised = "none"
        /\ out = results[1]

\* A single result with spans and an ai_probability that is not a multiple
\* of 10^-4 was returned for a chunk.
C6_Witness ==
    /\ apc = "returned"
    /\ Len(results) = 1
    /\ Len(in_chunks) = 1
    /\ \/ results[1].ai_spans # <<>>
       \/ Floor4(results[1].ai_probability) # results[1].ai_probability

\* C7 as claimed: for two or more results and a positive total word count
\* the returned ai_probability lies between the least and the greatest of
\* the per-chunk values.
C7_AsClaimed ==
    (apc = "returned" /\ Len(results) >= 2 /\ SameLength
       /\ TotalWordCount > 0) =>
        /\ MinOf(AiProbabilities) <= out.ai_probability
        /\ out.ai_probability <= MaxOf(AiProbabilities)

\* C7 amended: it lies between the least value cut to 4 decimal places and
\* the greatest value raised to 4 decimal places.
C7_Amended ==
    (apc = "returned" /\ Len(results) >= 2 /\ SameLength
       /\ TotalWordCount > 0) =>
        /\ Floor4(MinOf(AiProbabilities)) <= out.ai_probability
        /\ out.ai_probability <= Ceil4(MaxOf(AiProbabilities))

\* Three results of different ai_probability and chunks of different word
\* counts were aggregated.
C7_Witness ==
    /\ apc = "returned"
    /\ Len(results) = 3
    /\ SameLength
    /\ Cardinality(AiProbabilities) >= 2
    /\ Cardinality({_count_words(in_chunks[i]) : i \in 1..3} \ {0}) = 2
    /\ MinOf(AiProbabilities) < out.ai_probability
    /\ out.ai_probability < MaxOf(AiProbabilities)

\* The number of results labelled "AI".
AiLabelled == Cardinality({i \in 1..Len(results) : results[i].label = "AI"})

\* C8: for two or more results the label is "AI" exactly when more than
\* half of the results are labelled "AI", and "HUMAN" otherwise, ties
\* included.
C8_MajorityLabel ==
    (apc = "returned" /\ Len(results) >= 2) =>
        /\ out.label \in {"AI", "HUMAN"}
        /\ (out.label = "AI" <=> 2 * AiLabelled > Len(results))

\* An exact tie of two results was returned as "HUMAN".
C8_Witness ==
    /\ apc = "returned"
    /\ Len(results) = 2
    /\ AiLabelled = 1
    /\ out.label = "HUMAN"

\* C9: for two or more chunks the returned spans are the spans of the
\* chunks, in chunk order and in their own order, each moved by the sum of
\* len(chunk_j) + 2 over the earlier chunks, score unchanged.
C9_SpansRemapped ==
    (apc = "returned" /\ Len(results) >= 2 /\ SameLength) =>
        out.ai_spans =
            Concat([i \in 1..Len(results) |->
                [k \in 1..Len(results[i].ai_spans) |->
                    AiSpanDTO(results[i].ai_spans[k].start + OffsetOfChunk(i),
                              results[i].ai_spans[k].end + OffsetOfChunk(i),
                              results[i].ai_spans[k].score)]])

\* Two chunks of 4 characters, the second with a span from 1 to 3: it was
\* returned from 7 to 9.
C9_Witness ==
    /\ apc = "returned"
    /\ Len(results) = 2
    /\ in_chunks = <<<<W(2, 0), DOT>>, <<W(2, 0), DOT>>>>
    /\ results[1].ai_spans = <<AiSpanDTO(0, 2, 7)>>
    /\ results[2].ai_spans = <<AiSpanDTO(1, 3, 9), AiSpanDTO(0, 1, 7)>>
    /\ out.ai_spans = <<AiSpanDTO(0, 2, 7), AiSpanDTO(7, 9, 9), AiSpanDTO(6, 7, 7)>>

\* C10: with two or more results and chunks of zero words in total the call
\* does not fail: it returns ai_probability 0 and certainty 0.
C10_ZeroWordsReturnsZero ==
    (apc # "call" /\ Len(results) >= 2 /\ SameLength
       /\ TotalWordCount = 0) =>
        /\ apc = "returned"
        /\ raised = "none"
        /\ out.ai_probability = 0
        /\ out.certainty = 0

\* C18: when the results list and the chunks list have different lengths,
\* both of at least two, aggregate_chunk_results raises: it returns no
\* result computed from the pairs that zip kept.
C18_MismatchRaises ==
    (apc # "call" /\ Len(results) >= 2 /\ Len(in_chunks) >= 2
       /\ Len(in_chunks) # Len(results)) =>
        /\ apc = "raised"
        /\ out = NoResult

\* C20: when an oversized paragraph is split at sentence level, every
\* sub-chunk has at most 500 words unless it is a single sentence, and every
\* sub-chunk but the last could not have taken the first sentence of the next
\* one: its word count plus that sentence's exceeds 500.
C20_GreedyBounded ==
    [][(pc = "loop" /\ idx <= Len(paragraphs) /\ Oversized(idx)) =>
          LET subs == AddedSubChunks IN
          /\ \A j \in 1..Len(subs) :
                \/ _count_words(subs[j]) <= _MAX_WORDS
                \/ Len(Sentences(subs[j])) = 1
          /\ \A j \in 1..(Len(subs) - 1) :
                _count_words(subs[j])
                  + _count_words(Head(Sentences(subs[j + 1]))) > _MAX_WORDS]_vars

\* An oversized paragraph was split into several sub-chunks, one of them
\* packed from several sentences, and they are in the result.
C20_Witness ==
    /\ pc = "done"
    /\ \E i \in 1..Len(paragraphs) :
          LET subs == _split_paragraph_into_chunks(paragraphs[i]) IN
          /\ Oversized(i)
          /\ Len(subs) >= 2
          /\ \E j \in 1..Len(subs) : Len(Sentences(subs[j])) >= 2
          /\ \E k \in 0..Len(chunks) : SubSeq(chunks, k + 1, k + Len(subs)) = subs

RECURSIVE WithLF(_)
\* The text with every "\r\n" line ending written "\n".
WithLF(s) ==
    IF s = <<>> THEN <<>>
    ELSE IF Len(s) >= 2 /\ s[1] = CR /\ s[2] = NL
         THEN <<NL>> \o WithLF(SubSeq(s, 3, Len(s)))
         ELSE <<Head(s)>> \o WithLF(Tail(s))

\* Every line ending of the text is "\r\n", and it has one.
CRLFOnly(s) ==
    /\ \E i \in 1..Len(s) : s[i] = CR
    /\ \A i \in 1..Len(s) :
          /\ s[i] = CR => (i < Len(s) /\ s[i + 1] = NL)
          /\ s[i] = NL => (i > 1 /\ s[i - 1] = CR)

\* C19: a text with "\r\n" line endings is split as the same text with "\n"
\* line endings: into as many paragraphs, and into as many chunks holding
\* the same words.
C19_CRLFAsLF ==
    (pc = "done" /\ CRLFOnly(text)) =>
        LET lf == split_text_into_chunks(WithLF(text)) IN
        /\ Len(paragraphs) = Len(SplitIntoParagraphs(WithLF(text)))
        /\ Len(chunks) = Len(lf)
        /\ \A j \in 1..Len(chunks) : Words(chunks[j]) = Words(lf[j])

---------------------------------------------------------------------------
(* Properties of the detection service *)

\* What backend b returns for one chunk.
BackendOutput(b, t) == IF b = "gigacheck" THEN GigaCheckOutput(t) ELSE RuBertOutput(t)

\* The results of the pipeline chunker, backend b per chunk, aggregator on
\* text t (several when a mean is halfway between two roundings).
PipelineResults(b, t) ==
    LET cs == split_text_into_chunks(t)
        rs == [i \in 1..Len(cs) |-> BackendOutput(b, cs[i])]
    IN  IF Len(cs) = 1 THEN {rs[1]} ELSE Aggregated(rs, cs)

\* The texts handed to the model of backend b by the detect call of slot r,
\* in order.
TextsGivenTo(b, r) ==
    LET mine == SelectSeq(req[r].calls, LAMBDA c : c.backend = b)
    IN  [i \in 1..Len(mine) |-> mine[i].text]

\* C11: a detect call that returns has run the pipeline on the backend that
\* answered: that backend was called once per chunk of the text, in chunk
\* order, and the result is the aggregation of the chunk results.
C11_FullPipeline ==
    \A r \in Requests :
        req[r].pc = "done" =>
            LET b == Last(req[r].calls).backend IN
            /\ TextsGivenTo(b, r) = split_text_into_chunks(req[r].text)
            /\ req[r].result \in PipelineResults(b, req[r].text)

\* The detect call of slot r tried GigaCheck and GigaCheck raised.
PreferredRaised(r) ==
    /\ req[r].calls # <<>>
    /\ req[r].calls[1].backend = "gigacheck"
    /\ req[r].calls[1].outcome = "raised"

FallbackWarning(r) == Logged(r, "gigacheck_detection_failed_falling_back_to_rubert")

\* C12: when GigaCheck is usable and its detection raises, the detect call
\* raises only if RuBERT raises too; when RuBERT then succeeds the call
\* returns RuBERT's result, raises nothing, and the GigaCheck failure is in
\* the log.
C12_FallbackAfterFailure ==
    \A r \in Requests :
        PreferredRaised(r) =>
            /\ req[r].pc = "failed" =>
                  /\ Len(req[r].calls) = 2
                  /\ req[r].calls[2] = Call("rubert", req[r].text, "loop", "raised")
            /\ (Len(req[r].calls) = 2 /\ req[r].calls[2].outcome = "ok") =>
                  /\ req[r].pc = "done"
                  /\ req[r].result = RuBertOutput(req[r].text)
                  /\ req[r].error = "none"
                  /\ FallbackWarning(r) \in log

\* GigaCheck was loaded and raised on a request, RuBERT answered it.
C12_Witness ==
    \E r \in Requests :
        /\ gigacheck_model = "loaded"
        /\ PreferredRaised(r)
        /\ req[r].pc = "done"
        /\ req[r].result.model_used = "rubert"

\* The number of times the calls cs tried backend b.
Attempts(cs, b) == Len(SelectSeq(cs, LAMBDA c : c.backend = b))

\* The steps of a request: "gigacheck" is TRY_PREFERRED, "rubert" is
\* TRY_FALLBACK, "done" is DONE, "failed" is FAILED; a request that finds
\* GigaCheck unusable goes to TRY_FALLBACK at once.
RequestSteps ==
    {<<"idle", "gigacheck">>, <<"idle", "rubert">>,
     <<"gigacheck", "done">>, <<"gigacheck", "rubert">>,
     <<"rubert", "done">>, <<"rubert", "failed">>,
     <<"done", "idle">>, <<"failed", "idle">>}

\* C13: a request goes TRY_PREFERRED -> DONE, or TRY_PREFERRED ->
\* TRY_FALLBACK -> DONE, or TRY_PREFERRED -> TRY_FALLBACK -> FAILED; it tries
\* GigaCheck at most once and RuBERT at most once, RuBERT only when GigaCheck
\* was unusable or has raised, and when RuBERT raises the request fails with
\* no further attempt.
C13_RequestStateMachine ==
    [][\A r \in Requests :
          /\ \/ req'[r].pc = req[r].pc
             \/ <<req[r].pc, req'[r].pc>> \in RequestSteps
          /\ Attempts(req'[r].calls, "gigacheck") <= 1
          /\ Attempts(req'[r].calls, "rubert") <= 1
          /\ (req[r].pc = "idle" /\ req'[r].pc = "rubert") =>
                gigacheck_model = "None"
          /\ (req[r].pc = "gigacheck" /\ req'[r].pc = "rubert") =>
                Last(req[r].calls).outcome = "raised"
          /\ (req[r].pc = "gigacheck" /\ req'[r].pc = "done") =>
                Last(req[r].calls).outcome = "ok"
          /\ req'[r].pc = "failed" =>
                /\ Last(req'[r].calls).backend = "rubert"
                /\ Last(req'[r].calls).outcome = "raised"
                /\ req'[r].error # "none"
          /\ req[r].pc \in {"done", "failed"} =>
                \/ req'[r] = req[r]
                \/ req'[r] = IdleRequest]_vars

\* A request tried GigaCheck, which raised, then RuBERT, which raised: it
\* failed after one attempt of each.
C13_Witness ==
    \E r \in Requests :
        /\ req[r].pc = "failed"
        /\ Len(req[r].calls) = 2
        /\ req[r].calls[1].backend = "gigacheck"
        /\ req[r].calls[2].backend = "rubert"

\* The backends whose load the last load call started, in order.
LoadOrder == [i \in 1..Len(load_started) |-> load_started[i].backend]

\* C14: load starts the RuBERT load first and the GigaCheck load only after
\* RuBERT has loaded; when the RuBERT load raises, load raises and the
\* GigaCheck load is never started.
C14_GuaranteedLoadedFirst ==
    /\ LoadOrder \in {<<>>, <<"rubert">>, <<"rubert", "gigacheck">>}
    /\ Len(load_started) = 2 => load_started[1].outcome = "ok"
    /\ (load_started # <<>> /\ load_started[1].outcome = "raised") =>
          /\ lpc = "raised"
          /\ LoadOrder = <<"rubert">>
          /\ \A r \in Requests : req[r].pc = "idle"

\* The first load call raised on the RuBERT load: GigaCheck was never
\* loaded and no model is in place.
C14_Witness ==
    /\ lpc = "raised"
    /\ loads = 1
    /\ load_started = <<Call("rubert", <<>>, "executor", "raised")>>
    /\ rubert_model = "None"
    /\ gigacheck_model = "None"

\* The GigaCheck load of the last load call raised.
PreferredLoadFailed ==
    /\ Len(load_started) = 2
    /\ load_started[2] = Call("gigacheck", <<>>, "executor", "raised")

\* C15: when the GigaCheck load raises, load returns all the same, with
\* RuBERT loaded and GigaCheck marked unusable, and until the next load call
\* no detect call invokes GigaCheck: every answer is RuBERT's.
C15_PreferredLoadFailureTolerated ==
    PreferredLoadFailed =>
        /\ lpc = "returned"
        /\ rubert_model = "loaded"
        /\ gigacheck_model = "None"
        /\ Logged(0, "gigacheck_load_failed_using_rubert_only") \in log
        /\ \A r \in Requests :
              /\ Attempts(req[r].calls, "gigacheck") = 0
              /\ req[r].pc = "done" => req[r].result = RuBertOutput(req[r].text)

\* GigaCheck had been loaded, a second load call failed to load it, and a
\* request made since was answered by RuBERT.
C15_Witness ==
    /\ PreferredLoadFailed
    /\ loads = 2
    /\ \E r \in Requests :
          /\ req[r].pc = "done"
          /\ req[r].calls = <<Call("rubert", req[r].text, "loop", "ok")>>

\* C16: no model call runs on the event loop thread: both loads and every
\* model call of a detect call, GigaCheck's or RuBERT's, run on a worker
\* thread, so that the event loop can always take a step.
C16_LoopNeverBlocked ==
    /\ \A i \in 1..Len(load_started) : load_started[i].thread = "executor"
    /\ \A r \in Requests :
          \A i \in 1..Len(req[r].calls) : req[r].calls[i].thread = "executor"
    /\ LoopFree

\* What the detect call rec returns when it runs alone with the same
\* outcomes of its backend calls: the result of the backend that answered,
\* on the text of the call.
AloneResult(rec) == BackendOutput(Last(rec.calls).backend, rec.text)

\* C17: whatever the interleaving of the detect calls in flight, a call
\* that returns returns what it would return alone, and no step of a detect
\* call writes the state the calls share (the two loaded models).
C17_RequestsIsolated ==
    [][/\ \A r \in Requests :
             (req'[r].pc = "done" /\ req[r].pc # "done") =>
                 req'[r].result = AloneResult(req'[r])
       /\ req' # req =>
             /\ rubert_model' = rubert_model
             /\ gigacheck_model' = gigacheck_model]_vars

\* Two detect calls on different texts were in flight together; both have
\* returned, one answered by GigaCheck and one by RuBERT.
C17_Witness ==
    /\ \A r \in Requests : req[r].pc = "done"
    /\ req[1].text # req[2].text
    /\ req[1].result.model_used # req[2].result.model_used
    /\ req[1].result = AloneResult(req[1])
    /\ req[2].result = AloneResult(req[2])

---------------------------------------------------------------------------
(* The loop of split_text_into_chunks *)

\* The words of the paragraphs in the buffer.
BufferedWords == Sum([i \in 1..Len(pending) |-> _count_words(pending[i])])

\* C21: between two iterations of the loop of split_text_into_chunks the
\* recorded word count of the buffer is the sum of the word counts of the
\* buffered paragraphs and is below 200, and the buffer is empty when the
\* paragraph just handled was an oversized one.
C21_LoopInvariant ==
    pc = "loop" =>
        /\ pending_words = BufferedWords
        /\ pending_words < _MIN_WORDS
        /\ (idx > 1 /\ Oversized(idx - 1)) =>
              /\ pending = <<>>
              /\ pending_words = 0

\* Two paragraphs are in the buffer after the second was appended.
C21_Witness ==
    /\ pc = "loop"
    /\ idx = 3
    /\ Len(pending) = 2
    /\ pending_words = BufferedWords
    /\ pending_words > 0

\* C22: a detect call leaves the usable state of GigaCheck as it was: the
\* step that changes it is a step of load; while a call in which GigaCheck
\* raised is in its slot GigaCheck is still loaded, and a call made then
\* tries GigaCheck first.
C22_FailureIsTransient ==
    [][/\ gigacheck_model' # gigacheck_model =>
             /\ lpc = "gigacheck_load"
             /\ req' = req
       /\ \A r \in Requests :
             /\ (req'[r].calls # <<>> /\ req'[r].calls[1].outcome = "raised"
                   /\ req'[r].calls[1].backend = "gigacheck") =>
                    gigacheck_model' = "loaded"
             /\ (req[r].pc = "idle" /\ req'[r].pc # "idle"
                   /\ \E q \in Requests : PreferredRaised(q)) =>
                    /\ req'[r].pc = "gigacheck"
                    /\ req'[r].calls =
                          <<Call("gigacheck", req'[r].text, "executor", "pending")>>]_vars

\* A detect call made after another had been answered by RuBERT because
\* GigaCheck raised, with no load in between, is trying GigaCheck.
C22_Witness ==
    \E r \in Requests :
        /\ req[r].after_fallback
        /\ req[r].pc = "gigacheck"
        /\ req[r].calls[1].backend = "gigacheck"
        /\ gigacheck_model = "loaded"

---------------------------------------------------------------------------
(* Spans of the chunks and spans of the document *)

\* The characters of a string.  The letter of word j of run id is the
\* record [k |-> "w", n |-> j, id |-> id]: every word of a text is its own
\* letter.  Past the end of the string there is no character.
NoChar == [k |-> "none", n |-> 0, id |-> 0]

RECURSIVE CharAt(_, _)
\* s[p], p counted from 0.
CharAt(s, p) ==
    IF s = <<>> \/ p < 0 THEN NoChar
    ELSE LET t == Head(s)
             l == IF t.k = "w" THEN 2 * t.n - 1 ELSE 1
         IN  IF p >= l THEN CharAt(Tail(s), p - l)
             ELSE IF t.k # "w" THEN t
             ELSE IF p % 2 = 0 THEN [k |-> "w", n |-> p \div 2 + 1, id |-> t.id]
             ELSE SP

\* s[a:b] for 0 <= a: the characters from a up to b or the end of s.
Slice(s, a, b) ==
    [j \in 1..(Min(b, StrLen(s)) - a) |-> CharAt(s, a + j - 1)]

\* Spans inside a chunk: its first character and its last two.
LocalSpans(c) ==
    IF StrLen(c) < 2 THEN <<>>
    ELSE <<AiSpanDTO(0, 1, 7), AiSpanDTO(StrLen(c) - 2, StrLen(c), 9)>>

\* Results for the chunks cs, one per chunk, with the spans above.
ResultsWithSpans(cs) ==
    [i \in 1..Len(cs) |->
        DetectionResultDTO("AI", 60, 40, LocalSpans(cs[i]), "gigacheck")]

\* What aggregate_chunk_results returns for results rs and chunks cs that
\* hold a word (lines 16-17, 19-50).
AggregateResults(rs, cs) == IF Len(rs) = 1 THEN {rs[1]} ELSE Aggregated(rs, cs)

\* For each span of the aggregate, in order: the chunk it came from and its
\* place among the spans of that chunk.
SpanOrigins(rs) ==
    Concat([i \in 1..Len(rs) |-> [j \in 1..Len(rs[i].ai_spans) |-> <<i, j>>]])

\* C23: the spans aggregate_chunk_results returns for the chunks of a text
\* are offsets into the text: the characters of the text from gs to ge are
\* the characters of the chunk from ls to le.
C23_SpansIndexDocument ==
    (pc = "done" /\ Words(text) # <<>>) =>
        LET rs == ResultsWithSpans(chunks)
            origins == SpanOrigins(rs)
        IN  \A o \in AggregateResults(rs, chunks) :
                /\ Len(o.ai_spans) = Len(origins)
                /\ \A n \in 1..Len(origins) :
                      LET i == origins[n][1]
                          local == rs[i].ai_spans[origins[n][2]]
                      IN  Slice(text, o.ai_spans[n].start, o.ai_spans[n].end)
                            = Slice(chunks[i], local.start, local.end)

====
